---- MODULE Spec2Model ----
(***************************************************************************)
(* Model of the embd GPIO pin arbiter (gpioDriver) and of the HD44780      *)
(* character-LCD driver behind an MCP23017 I2C expander                    *)
(* (ADAFRUIT_CHARLCD over I2CConnection).                                  *)
(***************************************************************************)
EXTENDS Integers, Sequences, FiniteSets, TLC

\* ------------------------------------------------------------------------
\* byte arithmetic (Go's byte is an unsigned 8-bit integer)
\* ------------------------------------------------------------------------
RECURSIVE And8(_, _, _)
And8(a, b, n) ==
    IF n = 0 THEN 0
    ELSE (IF a % 2 = 1 /\ b % 2 = 1 THEN 1 ELSE 0)
         + 2 * And8(a \div 2, b \div 2, n - 1)

RECURSIVE Or8(_, _, _)
Or8(a, b, n) ==
    IF n = 0 THEN 0
    ELSE (IF a % 2 = 1 \/ b % 2 = 1 THEN 1 ELSE 0)
         + 2 * Or8(a \div 2, b \div 2, n - 1)

\* the two operators tabulated once over all pairs of bytes
AndTable == [a \in 0..255 |-> [b \in 0..255 |-> And8(a, b, 8)]]
OrTable == [a \in 0..255 |-> [b \in 0..255 |-> Or8(a, b, 8)]]
BitAnd(a, b) == AndTable[a][b]
BitOr(a, b) == OrTable[a][b]
BitNot(a) == 255 - a
Shl(x, n) == (x * (2 ^ n)) % 256
Shr(x, n) == x \div (2 ^ n)
ToByte(i) == i % 256
Bit(x, n) == Shr(x, n) % 2

\* ------------------------------------------------------------------------
\* constants of the LCD driver
\* ------------------------------------------------------------------------
writeDelay == 37
pulseDelay == 1
clearDelay == 1520

lcdInit == 51
lcdInit4bit == 50

lcdClearDisplay == 1
lcdReturnHome == 2
lcdCursorShift == 16
lcdSetDDRamAddr == 128

lcdDisplayMove == 8
lcdMoveLeft == 0
lcdMoveRight == 4

lcdSetEntryMode == 4
lcdEntryIncrement == 2
lcdEntryShiftOn == 1

lcdSetDisplayMode == 8
lcdDisplayOn == 4
lcdCursorOn == 2
lcdBlinkOn == 1

lcdSetFunctionMode == 32
lcd8BitMode == 16
lcd2Line == 8
lcd5x8Dots == 0
lcd5x10Dots == 4

RowAddress16Col == <<0, 64, 16, 80>>
RowAddress20Col == <<0, 64, 20, 84>>

\* expander registers written by I2CConnection
RegGPIOA == 18
RegGPIOB == 19
BacklightOffByte == 64
BacklightOnByte == 0

MCP230XXPinMap == [RS |-> 7, RW |-> 6, EN |-> 5,
                   D4 |-> 4, D5 |-> 3, D6 |-> 2, D7 |-> 1, Backlight |-> 0]

\* the pin map of the example in the specification's testable properties
ExamplePinMap == [RS |-> 7, RW |-> 6, EN |-> 5,
                  D4 |-> 1, D5 |-> 2, D6 |-> 3, D7 |-> 4, Backlight |-> 0]
\* a mis-wired map: EN shares the expander bit of D4
OverlapPinMap == [RS |-> 7, RW |-> 6, EN |-> 4,
                  D4 |-> 4, D5 |-> 3, D6 |-> 2, D7 |-> 1, Backlight |-> 0]
PinMaps == {MCP230XXPinMap, ExamplePinMap, OverlapPinMap}
\* expander addresses a connection is configured with
Addrs == {32, 39}

VARIABLES
    conn,        \* I2CConnection: [Addr, PinMap]
    hd,          \* "nil" or "ctl": whether an ADAFRUIT_CHARLCD exists
    eMode, dMode, fMode, rowAddr,   \* fields of ADAFRUIT_CHARLCD
    op,          \* name of the last operation called
    arg,         \* arguments of the call (specifications that draw them in Init)
    res,         \* result of the last operation: "ok", "err", "panic"
    instr,       \* what the last controller call did, in order: calls of
                 \* Connection.Write and sleeps
    events,      \* what the last I2CConnection call did, in order: bus writes
                 \* and sleeps
    initializedPins,  \* gpioDriver.initializedPins: pin number -> handle
    nextHandle,  \* allocation counter giving each constructed handle an identity
    opened,      \* per pin number: calls of newDigitalPin
    closed,      \* pin numbers whose handle has been closed
    gret,        \* value returned by the last gpioDriver call
    closeSeq     \* the calls of Close on handles made by the last
                 \* gpioDriver.Close: <<pin number, error>>

lcdVars == <<conn, hd, eMode, dMode, fMode, rowAddr, op, arg, res, instr, events>>
gpioVars == <<initializedPins, nextHandle, opened, closed, gret, closeSeq>>
vars == <<conn, hd, eMode, dMode, fMode, rowAddr, op, arg, res, instr, events,
          initializedPins, nextHandle, opened, closed, gret, closeSeq>>

\* ------------------------------------------------------------------------
\* the I2C bus (external collaborator): WriteByteToReg either succeeds or
\* returns an error.  failAt is the number of the call, counted from the
\* start of the current operation, that returns an error (0: none does).
\* ------------------------------------------------------------------------
BusEv(addr, reg, val) == <<"bus", addr, reg, val>>
SleepEv(d) == <<"sleep", d, 0, 0>>
IsBus(e) == e[1] = "bus"
IsSleep(e) == e[1] = "sleep"
BusFails(k, failAt) == k = failAt

RECURSIVE NumBus(_)
NumBus(ev) ==
    IF ev = <<>> THEN 0
    ELSE (IF IsBus(Head(ev)) THEN 1 ELSE 0) + NumBus(Tail(ev))

\* outcome of a piece of code: the events it produced and whether it
\* returned an error
Out(ev, err) == [ev |-> ev, err |-> err]

\* ------------------------------------------------------------------------
\* I2CConnection
\* ------------------------------------------------------------------------
\* pulseEnable finishing the strobe before it returns the error of a write
RECURSIVE pulseLoopFinishStrobe(_, _, _, _, _)
pulseLoopFinishStrobe(c, bytes, i, n, failAt) ==
    IF i > Len(bytes) THEN Out(<<>>, FALSE)
    ELSE LET ev == <<SleepEv(pulseDelay), BusEv(c.Addr, RegGPIOB, bytes[i])>>
             r == pulseLoopFinishStrobe(c, bytes, i + 1, n + 1, failAt)
         IN  Out(ev \o r.ev, r.err \/ BusFails(n + 1, failAt))

\* loop body of pulseEnable over bytes[i..], n bus calls made before
RECURSIVE pulseLoop(_, _, _, _, _)
pulseLoop(c, bytes, i, n, failAt) ==
    IF i > Len(bytes) THEN Out(<<>>, FALSE)
    ELSE LET ev == <<SleepEv(pulseDelay), BusEv(c.Addr, RegGPIOB, bytes[i])>>
         IN  IF BusFails(n + 1, failAt) THEN Out(ev, TRUE)
             ELSE LET r == pulseLoop(c, bytes, i + 1, n + 1, failAt)
                  IN  Out(ev \o r.ev, r.err)

pulseBytes(c, data) == <<data, BitOr(data, Shl(1, c.PinMap.EN)), data>>

pulseEnable(c, data, n, failAt) == pulseLoop(c, pulseBytes(c, data), 1, n, failAt)

instructionHigh(c, data) ==
    BitOr(BitOr(Shl(BitAnd(Shr(data, 4), 1), c.PinMap.D4),
                Shl(BitAnd(Shr(data, 5), 1), c.PinMap.D5)),
          BitOr(Shl(BitAnd(Shr(data, 6), 1), c.PinMap.D6),
                Shl(BitAnd(Shr(data, 7), 1), c.PinMap.D7)))

instructionLow(c, data) ==
    BitOr(BitOr(Shl(BitAnd(data, 1), c.PinMap.D4),
                Shl(BitAnd(Shr(data, 1), 1), c.PinMap.D5)),
          BitOr(Shl(BitAnd(Shr(data, 2), 1), c.PinMap.D6),
                Shl(BitAnd(Shr(data, 3), 1), c.PinMap.D7)))

withRS(c, rs, ins) == IF rs THEN BitOr(ins, Shl(1, c.PinMap.RS)) ELSE ins

\* the loop of Write returning without the delay after the last strobe
RECURSIVE writeLoopNoSettle(_, _, _, _, _, _)
writeLoopNoSettle(c, rs, instructions, i, n, failAt) ==
    IF i > Len(instructions) THEN Out(<<>>, FALSE)
    ELSE LET p == pulseEnable(c, withRS(c, rs, instructions[i]), n, failAt)
         IN  IF p.err THEN p
             ELSE LET r == writeLoopNoSettle(c, rs, instructions, i + 1,
                                             n + NumBus(p.ev), failAt)
                  IN  Out(p.ev \o r.ev, r.err)

RECURSIVE writeLoop(_, _, _, _, _, _)
writeLoop(c, rs, instructions, i, n, failAt) ==
    IF i > Len(instructions) THEN Out(<<SleepEv(writeDelay)>>, FALSE)
    ELSE LET p == pulseEnable(c, withRS(c, rs, instructions[i]), n, failAt)
         IN  IF p.err THEN p
             ELSE LET r == writeLoop(c, rs, instructions, i + 1,
                                     n + NumBus(p.ev), failAt)
                  IN  Out(p.ev \o r.ev, r.err)

\* I2CConnection.Write sending the low nibble before the high nibble
I2CWriteLowFirst(c, rs, data, n, failAt) ==
    writeLoop(c, rs, <<instructionLow(c, data), instructionHigh(c, data)>>,
              1, n, failAt)

\* I2CConnection.Write(rs, data), n bus calls made before in this operation
I2CWrite(c, rs, data, n, failAt) ==
    writeLoop(c, rs, <<instructionHigh(c, data), instructionLow(c, data)>>,
              1, n, failAt)

\* BacklightOff setting the backlight bit in the register of the nibbles
I2CBacklightOffNibbleReg(c, n, failAt) ==
    Out(<<BusEv(c.Addr, RegGPIOB, BacklightOffByte)>>, BusFails(n + 1, failAt))

I2CBacklightOff(c, n, failAt) ==
    Out(<<BusEv(c.Addr, RegGPIOA, BacklightOffByte)>>, BusFails(n + 1, failAt))

I2CBacklightOn(c, n, failAt) ==
    Out(<<BusEv(c.Addr, RegGPIOA, BacklightOnByte)>>, BusFails(n + 1, failAt))

\* NewI2CConnection(i2c, addr, pinMap): the connection returned and the five
\* bus writes that set the expander up; their errors are discarded
NewI2CConnection(addr, pinMap) ==
    [conn |-> [Addr |-> addr, PinMap |-> pinMap],
     ev |-> <<BusEv(addr, 5, 0), BusEv(addr, 10, 32),
              BusEv(addr, RegGPIOA, BacklightOffByte),
              BusEv(addr, 0, 0), BusEv(addr, 1, 0)>>]


\* ------------------------------------------------------------------------
\* ADAFRUIT_CHARLCD: h is the controller [eMode, dMode, fMode, rowAddr].
\* The controller talks to a Connection (an interface): a call of its Write
\* either succeeds or returns an error.  failAt is the number of the call
\* of Connection.Write, counted from the start of the current controller
\* operation, that returns an error (0: none does); k counts the calls
\* already made.
\* ------------------------------------------------------------------------
WriteEv(rs, data) == <<"write", rs, data>>
DelayEv(d) == <<"sleep", FALSE, d>>
IsWrite(e) == e[1] = "write"
ConnFails(k, failAt) == k = failAt

RECURSIVE NumWrites(_)
NumWrites(tr) ==
    IF tr = <<>> THEN 0
    ELSE (IF IsWrite(Head(tr)) THEN 1 ELSE 0) + NumWrites(Tail(tr))

\* value returned by code of the controller: the controller afterwards, what
\* it did, and "ok", "err" (an error was returned) or "panic"
Ret(h, tr, r) == [h |-> h, instr |-> tr, res |-> r]

EntryDecrement(h) == [h EXCEPT !.eMode = BitAnd(@, BitNot(lcdEntryIncrement))]
EntryIncrement(h) == [h EXCEPT !.eMode = BitOr(@, lcdEntryIncrement)]
EntryShiftOff(h) == [h EXCEPT !.eMode = BitAnd(@, BitNot(lcdEntryShiftOn))]
EntryShiftOn(h) == [h EXCEPT !.eMode = BitOr(@, lcdEntryShiftOn)]
DisplayOff(h) == [h EXCEPT !.dMode = BitAnd(@, BitNot(lcdDisplayOn))]
DisplayOn(h) == [h EXCEPT !.dMode = BitOr(@, lcdDisplayOn)]
CursorOff(h) == [h EXCEPT !.dMode = BitAnd(@, BitNot(lcdCursorOn))]
CursorOn(h) == [h EXCEPT !.dMode = BitOr(@, lcdCursorOn)]
BlinkOff(h) == [h EXCEPT !.dMode = BitAnd(@, BitNot(lcdBlinkOn))]
BlinkOn(h) == [h EXCEPT !.dMode = BitOr(@, lcdBlinkOn)]
FourBitMode(h) == [h EXCEPT !.fMode = BitAnd(@, BitNot(lcd8BitMode))]
\* EightBitMode setting the bit of the function-set opcode
EightBitModeOpcodeBit(h) == [h EXCEPT !.fMode = BitOr(@, lcdSetFunctionMode)]

EightBitMode(h) == [h EXCEPT !.fMode = BitOr(@, lcd8BitMode)]
OneLine(h) == [h EXCEPT !.fMode = BitAnd(@, BitNot(lcd2Line))]
TwoLine(h) == [h EXCEPT !.fMode = BitOr(@, lcd2Line)]
Dots5x8(h) == [h EXCEPT !.fMode = BitAnd(@, BitNot(lcd5x10Dots))]
Dots5x10(h) == [h EXCEPT !.fMode = BitOr(@, lcd5x10Dots)]

\* a ModeSetter value is the name of its function
ModeSetter ==
    {"EntryDecrement", "EntryIncrement", "EntryShiftOff", "EntryShiftOn",
     "DisplayOff", "DisplayOn", "CursorOff", "CursorOn", "BlinkOff", "BlinkOn",
     "FourBitMode", "EightBitMode", "OneLine", "TwoLine", "Dots5x8", "Dots5x10"}

\* the call m(hd)
CallSetter(m, h) ==
    CASE m = "EntryDecrement" -> EntryDecrement(h)
      [] m = "EntryIncrement" -> EntryIncrement(h)
      [] m = "EntryShiftOff" -> EntryShiftOff(h)
      [] m = "EntryShiftOn" -> EntryShiftOn(h)
      [] m = "DisplayOff" -> DisplayOff(h)
      [] m = "DisplayOn" -> DisplayOn(h)
      [] m = "CursorOff" -> CursorOff(h)
      [] m = "CursorOn" -> CursorOn(h)
      [] m = "BlinkOff" -> BlinkOff(h)
      [] m = "BlinkOn" -> BlinkOn(h)
      [] m = "FourBitMode" -> FourBitMode(h)
      [] m = "EightBitMode" -> EightBitMode(h)
      [] m = "OneLine" -> OneLine(h)
      [] m = "TwoLine" -> TwoLine(h)
      [] m = "Dots5x8" -> Dots5x8(h)
      [] m = "Dots5x10" -> Dots5x10(h)

DefaultModes == <<"FourBitMode", "TwoLine", "Dots5x8", "EntryIncrement",
                  "EntryShiftOff", "DisplayOn", "CursorOff", "BlinkOff">>

EntryIncrementEnabled(h) == BitAnd(h.eMode, lcdEntryIncrement) > 0
EntryShiftEnabled(h) == BitAnd(h.eMode, lcdEntryShiftOn) > 0
DisplayEnabled(h) == BitAnd(h.dMode, lcdDisplayOn) > 0
CursorEnabled(h) == BitAnd(h.dMode, lcdCursorOn) > 0
BlinkEnabled(h) == BitAnd(h.dMode, lcdBlinkOn) > 0
EightBitModeEnabled(h) == BitAnd(h.fMode, lcd8BitMode) > 0
TwoLineEnabled(h) == BitAnd(h.fMode, lcd2Line) > 0
Dots5x10Enabled(h) == BitAnd(h.fMode, lcd5x8Dots) > 0

\* hd.Write(rs, value) through the embedded Connection
ConnWrite(h, rs, value, k, failAt) ==
    Ret(h, <<WriteEv(rs, value)>>, IF ConnFails(k + 1, failAt) THEN "err" ELSE "ok")

WriteChar(h, value, k, failAt) == ConnWrite(h, TRUE, value, k, failAt)
WriteInstruction(h, value, k, failAt) == ConnWrite(h, FALSE, value, k, failAt)

setEntryMode(h, k, failAt) ==
    WriteInstruction(h, BitOr(lcdSetEntryMode, h.eMode), k, failAt)
setDisplayMode(h, k, failAt) ==
    WriteInstruction(h, BitOr(lcdSetDisplayMode, h.dMode), k, failAt)
setFunctionMode(h, k, failAt) ==
    WriteInstruction(h, BitOr(lcdSetFunctionMode, h.fMode), k, failAt)

\* the slice `functions` of SetMode with the entry mode sent first
setModeFunctionsEntryFirst == <<"setEntryMode", "setDisplayMode", "setFunctionMode">>

\* the slice `functions` of SetMode
setModeFunctions == <<"setDisplayMode", "setFunctionMode", "setEntryMode">>

callFunction(f, h, k, failAt) ==
    CASE f = "setDisplayMode" -> setDisplayMode(h, k, failAt)
      [] f = "setFunctionMode" -> setFunctionMode(h, k, failAt)
      [] f = "setEntryMode" -> setEntryMode(h, k, failAt)

\* for _, m := range modes { m(hd) }
RECURSIVE applyModes(_, _)
applyModes(modes, h) ==
    IF modes = <<>> THEN h
    ELSE applyModes(Tail(modes), CallSetter(Head(modes), h))

\* for _, f := range functions { if err := f(); err != nil { return err } }
RECURSIVE functionsLoop(_, _, _, _, _)
functionsLoop(fs, i, h, k, failAt) ==
    IF i > Len(fs) THEN Ret(h, <<>>, "ok")
    ELSE LET r == callFunction(fs[i], h, k, failAt)
         IN  IF r.res # "ok" THEN r
             ELSE LET t == functionsLoop(fs, i + 1, h, k + NumWrites(r.instr), failAt)
                  IN  Ret(h, r.instr \o t.instr, t.res)

\* SetMode restoring the bitfields when a transmission fails
SetModeRollback(h, modes, k, failAt) ==
    LET r == functionsLoop(setModeFunctions, 1, applyModes(modes, h), k, failAt)
    IN  IF r.res = "ok" THEN r ELSE Ret(h, r.instr, r.res)

SetMode(h, modes, k, failAt) ==
    functionsLoop(setModeFunctions, 1, applyModes(modes, h), k, failAt)

\* the methods DisplayOff() .. BlinkOn(): one setter, then setDisplayMode
ToggleMethods == {"DisplayOff", "DisplayOn", "CursorOff", "CursorOn",
                  "BlinkOff", "BlinkOn"}
toggle(m, h, k, failAt) == setDisplayMode(CallSetter(m, h), k, failAt)

ShiftLeft(h, k, failAt) ==
    WriteInstruction(h, BitOr(BitOr(lcdCursorShift, lcdDisplayMove), lcdMoveLeft),
                     k, failAt)
ShiftRight(h, k, failAt) ==
    WriteInstruction(h, BitOr(BitOr(lcdCursorShift, lcdDisplayMove), lcdMoveRight),
                     k, failAt)

\* Home waiting only after a transmission that succeeded
HomeDelayOnSuccess(h, k, failAt) ==
    LET w == WriteInstruction(h, lcdReturnHome, k, failAt)
    IN  IF w.res # "ok" THEN w
        ELSE Ret(h, w.instr \o <<DelayEv(clearDelay)>>, w.res)

Home(h, k, failAt) ==
    LET w == WriteInstruction(h, lcdReturnHome, k, failAt)
    IN  Ret(h, w.instr \o <<DelayEv(clearDelay)>>, w.res)

\* Clear restoring the default modes instead of the modes held
ClearToDefaults(h, k, failAt) ==
    LET w == WriteInstruction(h, lcdClearDisplay, k, failAt)
    IN  IF w.res # "ok" THEN w
        ELSE LET m == SetMode(h, DefaultModes, k + NumWrites(w.instr), failAt)
             IN  Ret(m.h, w.instr \o <<DelayEv(clearDelay)>> \o m.instr, m.res)

Clear(h, k, failAt) ==
    LET w == WriteInstruction(h, lcdClearDisplay, k, failAt)
    IN  IF w.res # "ok" THEN w
        ELSE LET m == SetMode(h, <<>>, k + NumWrites(w.instr), failAt)
             IN  Ret(m.h, w.instr \o <<DelayEv(clearDelay)>> \o m.instr, m.res)

\* an index out of range on the array rowAddr is a run-time panic
Panic == -1

\* lcdRowOffset clamping only rows above 4
lcdRowOffsetAbove4(h, row) ==
    LET r == IF row > 4 THEN 3 ELSE row
    IN  IF r < 0 \/ r >= Len(h.rowAddr) THEN Panic ELSE h.rowAddr[r + 1]

lcdRowOffset(h, row) ==
    LET r == IF row > 3 THEN 3 ELSE row
    IN  IF r < 0 \/ r >= Len(h.rowAddr) THEN Panic ELSE h.rowAddr[r + 1]

SetDDRamAddr(h, value, k, failAt) ==
    WriteInstruction(h, BitOr(lcdSetDDRamAddr, value), k, failAt)

SetCursor(h, col, row, k, failAt) ==
    LET off == lcdRowOffset(h, row)
    IN  IF off = Panic THEN Ret(h, <<>>, "panic")
        ELSE SetDDRamAddr(h, ToByte(ToByte(col) + off), k, failAt)

\* the method lcdInit()
lcdInitSeq(h, k, failAt) ==
    LET a == WriteInstruction(h, lcdInit, k, failAt)
    IN  IF a.res # "ok" THEN a
        ELSE LET b == WriteInstruction(h, lcdInit4bit, k + NumWrites(a.instr), failAt)
             IN  Ret(h, a.instr \o b.instr, b.res)

NewController(ra) == [eMode |-> 0, dMode |-> 0, fMode |-> 0, rowAddr |-> ra]

\* the caller's modes put before the defaults
newModesDefaultsLast(modes) == modes \o DefaultModes

\* the modes New passes to SetMode
newModes(modes) == DefaultModes \o modes

\* New(bus, rowAddr, modes...): with res "ok" it returns the controller h,
\* otherwise nil
New(ra, modes, k, failAt) ==
    LET i == lcdInitSeq(NewController(ra), k, failAt)
    IN  IF i.res # "ok" THEN i
        ELSE LET m == SetMode(i.h, newModes(modes), k + NumWrites(i.instr), failAt)
             IN  Ret(m.h, i.instr \o m.instr, m.res)

\* ------------------------------------------------------------------------
\* PinMap (registry of pin descriptors) and gpioDriver
\* ------------------------------------------------------------------------
CapNormal == 1
CapI2C == 2
CapUART == 4
CapSPI == 8
CapGPMC == 16
CapLCD == 32
CapPWM == 64

\* the registry the driver is constructed with
BoardPins ==
    << [N |-> 10, IDs |-> <<"P8_1", "GPIO_10">>, Caps |-> CapNormal],
       [N |-> 11, IDs |-> <<"P8_2", "I2C_SDA">>, Caps |-> CapNormal + CapI2C],
       [N |-> 12, IDs |-> <<"P8_3">>, Caps |-> CapNormal + CapPWM],
       [N |-> 13, IDs |-> <<"P8_4", "UART_TX">>, Caps |-> CapUART + CapLCD] >>

PinNumbers == {BoardPins[i].N : i \in 1..Len(BoardPins)}
IntKey(n) == [t |-> "int", v |-> n]
StrKey(id) == [t |-> "string", v |-> id]
Keys ==
    {IntKey(n) : n \in PinNumbers \cup {99}}
    \cup UNION {{StrKey(BoardPins[i].IDs[j]) : j \in 1..Len(BoardPins[i].IDs)} :
                 i \in 1..Len(BoardPins)}
    \cup {StrKey("P9_9")}

NoDesc == [N |-> -1, IDs |-> <<>>, Caps |-> 0]
Found(pd) == pd # NoDesc

\* the search of the aliases looking at the first alias only
hasIDFirstOnly(ids, j, id) == j <= Len(ids) /\ ids[j] = id

RECURSIVE hasID(_, _, _)
hasID(ids, j, id) ==
    IF j > Len(ids) THEN FALSE
    ELSE IF ids[j] = id THEN TRUE ELSE hasID(ids, j + 1, id)

\* PinMap.Lookup: the first descriptor, from index i on, that matches the key
RECURSIVE lookupFrom(_, _, _)
lookupFrom(m, i, key) ==
    IF i > Len(m) THEN NoDesc
    ELSE IF \/ key.t = "int" /\ m[i].N = key.v
            \/ key.t = "string" /\ hasID(m[i].IDs, 1, key.v)
         THEN m[i]
         ELSE lookupFrom(m, i + 1, key)

Lookup(m, key) == lookupFrom(m, 1, key)
lookupKey(key) == Lookup(BoardPins, key)

NoHandle == [id |-> 0, kind |-> "none", n |-> -1]
Held(pins) == {n \in DOMAIN pins : pins[n] # NoHandle}

\* the errors of the driver, by the names the specification gives them
ErrNotFound == "NotFound"
ErrModeConflict == "ModeConflict"
ErrUnsupportedMode == "UnsupportedMode"
NoErr == "nil"

\* value returned by an acquisition: the handle and error, the map
\* afterwards and whether a handle was constructed
Acq(dp, err, pins, made) == [dp |-> dp, err |-> err, pins |-> pins, made |-> made]

\* the handle the constructor newDigitalPin(n) returns; id is its identity
newDigitalPin(n, id) == [id |-> id, kind |-> "digital", n |-> n]

\* a capability test that only asks for some capability
capableOfAny(pd, cap) == pd.Caps # 0

capable(pd, cap) == BitAnd(pd.Caps, cap) # 0

\* digitalPin constructing a handle on every successful call
digitalPinAlwaysNew(pins, key, id) ==
    LET pd == lookupKey(key)
    IN  IF ~Found(pd) THEN Acq(NoHandle, ErrNotFound, pins, FALSE)
        ELSE IF pins[pd.N] # NoHandle /\ pins[pd.N].kind # "digital"
        THEN Acq(NoHandle, ErrModeConflict, pins, FALSE)
        ELSE IF ~capable(pd, CapNormal)
        THEN Acq(NoHandle, ErrUnsupportedMode, pins, FALSE)
        ELSE LET dp == newDigitalPin(pd.N, id)
             IN  Acq(dp, NoErr, [pins EXCEPT ![pd.N] = dp], TRUE)

\* digitalPin replacing a handle of another kind
digitalPinReplacing(pins, key, id) ==
    LET pd == lookupKey(key)
    IN  IF ~Found(pd) THEN Acq(NoHandle, ErrNotFound, pins, FALSE)
        ELSE IF pins[pd.N] # NoHandle /\ pins[pd.N].kind = "digital"
        THEN Acq(pins[pd.N], NoErr, pins, FALSE)
        ELSE IF ~capable(pd, CapNormal)
        THEN Acq(NoHandle, ErrUnsupportedMode, pins, FALSE)
        ELSE LET dp == newDigitalPin(pd.N, id)
             IN  Acq(dp, NoErr, [pins EXCEPT ![pd.N] = dp], TRUE)

digitalPin(pins, key, id) ==
    LET pd == lookupKey(key)
    IN  IF ~Found(pd) THEN Acq(NoHandle, ErrNotFound, pins, FALSE)
        ELSE IF pins[pd.N] # NoHandle
        THEN IF pins[pd.N].kind # "digital"
             THEN Acq(NoHandle, ErrModeConflict, pins, FALSE)
             ELSE Acq(pins[pd.N], NoErr, pins, FALSE)
        ELSE IF ~capable(pd, CapNormal)
        THEN Acq(NoHandle, ErrUnsupportedMode, pins, FALSE)
        ELSE LET dp == newDigitalPin(pd.N, id)
             IN  Acq(dp, NoErr, [pins EXCEPT ![pd.N] = dp], TRUE)

\* acquisition of a handle of another kind (a PWM pin), as the
\* specification describes the arbiter for kinds other than digital
pwmPin(pins, key, id) ==
    LET pd == lookupKey(key)
    IN  IF ~Found(pd) THEN Acq(NoHandle, ErrNotFound, pins, FALSE)
        ELSE IF pins[pd.N] # NoHandle
        THEN IF pins[pd.N].kind # "pwm"
             THEN Acq(NoHandle, ErrModeConflict, pins, FALSE)
             ELSE Acq(pins[pd.N], NoErr, pins, FALSE)
        ELSE IF ~capable(pd, CapPWM)
        THEN Acq(NoHandle, ErrUnsupportedMode, pins, FALSE)
        ELSE LET p == [id |-> id, kind |-> "pwm", n |-> pd.N]
             IN  Acq(p, NoErr, [pins EXCEPT ![pd.N] = p], TRUE)

\* gpioDriver.Close: order is the order in which range visits the held
\* handles, failing the pin numbers whose handle's Close returns an error.
\* The result is the sequence of calls of Close made, <<pin number, error>>,
\* and the error returned.
\* the loop of Close going on after an error and returning the first one
RECURSIVE closeLoopContinue(_, _, _)
closeLoopContinue(order, i, failing) ==
    IF i > Len(order) THEN [seq |-> <<>>, err |-> NoErr]
    ELSE LET r == closeLoopContinue(order, i + 1, failing)
             e == IF order[i] \in failing THEN "IOError" ELSE NoErr
         IN  [seq |-> << <<order[i], e>> >> \o r.seq,
              err |-> IF e # NoErr THEN e ELSE r.err]

RECURSIVE closeLoop(_, _, _)
closeLoop(order, i, failing) ==
    IF i > Len(order) THEN [seq |-> <<>>, err |-> NoErr]
    ELSE IF order[i] \in failing
         THEN [seq |-> << <<order[i], "IOError">> >>, err |-> "IOError"]
    ELSE LET r == closeLoop(order, i + 1, failing)
         IN  [seq |-> << <<order[i], NoErr>> >> \o r.seq, err |-> r.err]

driverClose(order, failing) == closeLoop(order, 1, failing)

\* ------------------------------------------------------------------------
\* inputs
\* ------------------------------------------------------------------------
MaxSetters == 2        \* longest list of mode setters a caller passes
MaxCol == 20           \* columns 0..MaxCol
MaxRow == 6            \* rows -2..MaxRow
Bytes == 0..255
SomeBytes == {65, 255}
Cols == (0..MaxCol) \cup {255, 256}
Rows == (-2)..MaxRow
RowAddresses == {RowAddress16Col, RowAddress20Col}

RECURSIVE SeqsUpTo(_, _)
SeqsUpTo(S, n) ==
    IF n = 0 THEN {<<>>}
    ELSE LET shorter == SeqsUpTo(S, n - 1)
         IN  shorter \cup {Append(q, x) : q \in shorter, x \in S}

SetterLists == SeqsUpTo(ModeSetter, MaxSetters)
\* the lists tried where calls follow one another freely
SomeSetterLists ==
    SeqsUpTo(ModeSetter, 1)
    \cup {<<"CursorOn", "BlinkOn">>, <<"EightBitMode", "Dots5x10", "EntryShiftOn">>}

NoArg == [op |-> "none"]

\* ------------------------------------------------------------------------
\* state and steps of the LCD driver
\* ------------------------------------------------------------------------
H == [eMode |-> eMode, dMode |-> dMode, fMode |-> fMode, rowAddr |-> rowAddr]

GpioIdle ==
    /\ initializedPins = [n \in PinNumbers |-> NoHandle]
    /\ nextHandle = 1
    /\ opened = [n \in PinNumbers |-> 0]
    /\ closed = {}
    /\ gret = [op |-> "none", key |-> IntKey(-1), dp |-> NoHandle, err |-> NoErr]
    /\ closeSeq = <<>>

\* the connection conn was constructed by NewI2CConnection, no controller yet
LcdIdle ==
    /\ hd = "nil"
    /\ eMode = 0 /\ dMode = 0 /\ fMode = 0
    /\ rowAddr = RowAddress16Col
    /\ op = "NewI2CConnection"
    /\ res = "ok"
    /\ instr = <<>>
    /\ events = NewI2CConnection(conn.Addr, conn.PinMap).ev

\* no call was made since the construction
NotCalled == op \in {"none", "NewI2CConnection"}

\* the effect of a controller call that returned r
Commit(name, r) ==
    /\ op' = name
    /\ res' = r.res
    /\ instr' = r.instr
    /\ events' = <<>>
    /\ eMode' = r.h.eMode
    /\ dMode' = r.h.dMode
    /\ fMode' = r.h.fMode
    /\ rowAddr' = r.h.rowAddr
    /\ UNCHANGED <<conn, gpioVars>>

\* the effect of a call on the I2CConnection that returned w
CommitConn(name, w) ==
    /\ op' = name
    /\ res' = IF w.err THEN "err" ELSE "ok"
    /\ instr' = <<>>
    /\ events' = w.ev
    /\ UNCHANGED <<conn, hd, eMode, dMode, fMode, rowAddr, gpioVars>>

DoNew(ra, modes, failAt) ==
    /\ hd = "nil"
    /\ LET r == New(ra, modes, 0, failAt)
       IN  /\ hd' = IF r.res = "ok" THEN "ctl" ELSE "nil"
           /\ Commit("New", IF r.res = "ok" THEN r
                            ELSE Ret(NewController(rowAddr), r.instr, r.res))

DoSetMode(modes, failAt) ==
    /\ hd = "ctl"
    /\ Commit("SetMode", SetMode(H, modes, 0, failAt))
    /\ UNCHANGED hd

DoToggle(m, failAt) ==
    /\ hd = "ctl"
    /\ Commit(m, toggle(m, H, 0, failAt))
    /\ UNCHANGED hd

DoShiftLeft(failAt) ==
    /\ hd = "ctl"
    /\ Commit("ShiftLeft", ShiftLeft(H, 0, failAt))
    /\ UNCHANGED hd

DoShiftRight(failAt) ==
    /\ hd = "ctl"
    /\ Commit("ShiftRight", ShiftRight(H, 0, failAt))
    /\ UNCHANGED hd

DoHome(failAt) ==
    /\ hd = "ctl"
    /\ Commit("Home", Home(H, 0, failAt))
    /\ UNCHANGED hd

DoClear(failAt) ==
    /\ hd = "ctl"
    /\ Commit("Clear", Clear(H, 0, failAt))
    /\ UNCHANGED hd

DoSetCursor(col, row, failAt) ==
    /\ hd = "ctl"
    /\ Commit("SetCursor", SetCursor(H, col, row, 0, failAt))
    /\ UNCHANGED hd

DoWriteChar(value, failAt) ==
    /\ hd = "ctl"
    /\ Commit("WriteChar", WriteChar(H, value, 0, failAt))
    /\ UNCHANGED hd

DoWriteInstruction(value, failAt) ==
    /\ hd = "ctl"
    /\ Commit("WriteInstruction", WriteInstruction(H, value, 0, failAt))
    /\ UNCHANGED hd

DoI2CWrite(rs, data, failAt) ==
    CommitConn("I2CWrite", I2CWrite(conn, rs, data, 0, failAt))

DoBacklightOn(failAt) ==
    CommitConn("BacklightOn", I2CBacklightOn(conn, 0, failAt))

DoBacklightOff(failAt) ==
    CommitConn("BacklightOff", I2CBacklightOff(conn, 0, failAt))

\* ------------------------------------------------------------------------
\* Spec: a controller and a connection driven by any sequence of calls
\* ------------------------------------------------------------------------
Init ==
    /\ conn = NewI2CConnection(32, MCP230XXPinMap).conn
    /\ LcdIdle
    /\ arg = NoArg
    /\ GpioIdle

CallNew == \E ra \in RowAddresses, m \in SomeSetterLists, f \in 0..5 :
               DoNew(ra, m, f) /\ UNCHANGED arg
CallSetMode == \E m \in SomeSetterLists, f \in 0..3 : DoSetMode(m, f) /\ UNCHANGED arg
CallToggle == \E m \in ToggleMethods, f \in 0..1 : DoToggle(m, f) /\ UNCHANGED arg
CallShiftLeft == \E f \in 0..1 : DoShiftLeft(f) /\ UNCHANGED arg
CallShiftRight == \E f \in 0..1 : DoShiftRight(f) /\ UNCHANGED arg
CallHome == \E f \in 0..1 : DoHome(f) /\ UNCHANGED arg
CallClear == \E f \in 0..4 : DoClear(f) /\ UNCHANGED arg
CallSetCursor == \E col \in {0, 19}, row \in {-1, 0, 3, 4}, f \in 0..1 :
                     DoSetCursor(col, row, f) /\ UNCHANGED arg
CallWriteChar == \E v \in SomeBytes, f \in 0..1 : DoWriteChar(v, f) /\ UNCHANGED arg
CallWriteInstruction == \E v \in SomeBytes, f \in 0..1 :
                            DoWriteInstruction(v, f) /\ UNCHANGED arg
CallI2CWrite == \E rs \in BOOLEAN, v \in {65}, f \in 0..6 :
                    DoI2CWrite(rs, v, f) /\ UNCHANGED arg
CallBacklightOn == \E f \in 0..1 : DoBacklightOn(f) /\ UNCHANGED arg
CallBacklightOff == \E f \in 0..1 : DoBacklightOff(f) /\ UNCHANGED arg

Next ==
    \/ CallNew
    \/ CallSetMode
    \/ CallToggle
    \/ CallShiftLeft
    \/ CallShiftRight
    \/ CallHome
    \/ CallClear
    \/ CallSetCursor
    \/ CallWriteChar
    \/ CallWriteInstruction
    \/ CallI2CWrite
    \/ CallBacklightOn
    \/ CallBacklightOff

Spec == Init /\ [][Next]_vars

\* ------------------------------------------------------------------------
\* SpecGPIO: the pin arbiter driven by any sequence of digital-pin
\* acquisitions and Close calls.  SpecKinds: the same with acquisitions of
\* a second kind of handle.
\* ------------------------------------------------------------------------
Perms(S) == {q \in [1..Cardinality(S) -> S] : \A i, j \in DOMAIN q : q[i] = q[j] => i = j}
SeqToSet(q) == {q[i] : i \in DOMAIN q}

CommitAcq(name, key, a) ==
    /\ initializedPins' = a.pins
    /\ nextHandle' = IF a.made THEN nextHandle + 1 ELSE nextHandle
    /\ opened' = IF a.made THEN [opened EXCEPT ![a.dp.n] = @ + 1] ELSE opened
    /\ gret' = [op |-> name, key |-> key, dp |-> a.dp, err |-> a.err]
    /\ closeSeq' = <<>>
    /\ UNCHANGED <<closed, lcdVars>>

CallDigitalPin ==
    \E key \in Keys :
        CommitAcq("digitalPin", key, digitalPin(initializedPins, key, nextHandle))

CallPwmPin ==
    \E key \in Keys :
        CommitAcq("pwmPin", key, pwmPin(initializedPins, key, nextHandle))

\* Close deleting from the map the handles it closed
CallCloseForgetting ==
    \E order \in Perms(Held(initializedPins)), failing \in SUBSET Held(initializedPins) :
        LET r == driverClose(order, failing)
            done == {c[1] : c \in {d \in SeqToSet(r.seq) : d[2] = NoErr}}
        IN  /\ closeSeq' = r.seq
            /\ closed' = closed \cup done
            /\ gret' = [op |-> "Close", key |-> IntKey(-1), dp |-> NoHandle,
                        err |-> r.err]
            /\ initializedPins' = [n \in PinNumbers |->
                                      IF n \in done THEN NoHandle ELSE initializedPins[n]]
            /\ UNCHANGED <<nextHandle, opened, lcdVars>>

CallClose ==
    \E order \in Perms(Held(initializedPins)), failing \in SUBSET Held(initializedPins) :
        LET r == driverClose(order, failing)
        IN  /\ closeSeq' = r.seq
            /\ closed' = closed \cup {c[1] : c \in {d \in SeqToSet(r.seq) : d[2] = NoErr}}
            /\ gret' = [op |-> "Close", key |-> IntKey(-1), dp |-> NoHandle,
                        err |-> r.err]
            /\ UNCHANGED <<initializedPins, nextHandle, opened, lcdVars>>

NextGPIO == CallDigitalPin \/ CallClose
SpecGPIO == Init /\ [][NextGPIO]_vars

NextKinds == CallDigitalPin \/ CallPwmPin \/ CallClose
SpecKinds == Init /\ [][NextKinds]_vars

\* ------------------------------------------------------------------------
\* specifications of one call: Init draws the arguments (arg) and the
\* object the call is made on, the action makes the call
\* ------------------------------------------------------------------------
\* controllers as New returns them
StartLists == {<<>>,
               <<"EntryDecrement", "DisplayOff", "OneLine">>,
               <<"EntryShiftOn", "CursorOn", "BlinkOn", "EightBitMode", "Dots5x10">>}
StartControllers == {New(ra, l, 0, 0).h : ra \in RowAddresses, l \in StartLists}

Constructed(h) ==
    /\ hd = "ctl"
    /\ eMode = h.eMode /\ dMode = h.dMode /\ fMode = h.fMode
    /\ rowAddr = h.rowAddr
    /\ op = "none"
    /\ res = "none"
    /\ instr = <<>>
    /\ events = <<>>

\* SpecWrite: one call of I2CConnection.Write
InitWrite ==
    /\ conn \in {NewI2CConnection(a, pm).conn : a \in Addrs, pm \in PinMaps}
    /\ LcdIdle
    /\ arg \in [op : {"I2CWrite"}, rs : BOOLEAN, data : Bytes, failAt : 0..6]
    /\ GpioIdle
RunI2CWrite ==
    /\ NotCalled
    /\ DoI2CWrite(arg.rs, arg.data, arg.failAt)
    /\ UNCHANGED arg
SpecWrite == InitWrite /\ [][RunI2CWrite]_vars

\* SpecSetMode: one call of SetMode on a constructed controller h0
InitSetMode ==
    /\ conn = NewI2CConnection(32, MCP230XXPinMap).conn
    /\ arg \in [op : {"SetMode"}, h0 : StartControllers, modes : SetterLists,
                failAt : 0..3]
    /\ Constructed(arg.h0)
    /\ GpioIdle
RunSetMode ==
    /\ op = "none"
    /\ DoSetMode(arg.modes, arg.failAt)
    /\ UNCHANGED arg
SpecSetMode == InitSetMode /\ [][RunSetMode]_vars

\* SpecNew: one call of New
InitNew ==
    /\ conn = NewI2CConnection(32, MCP230XXPinMap).conn
    /\ LcdIdle
    /\ arg \in [op : {"New"}, ra : RowAddresses, modes : SetterLists, failAt : 0..5]
    /\ GpioIdle
RunNew ==
    /\ NotCalled
    /\ DoNew(arg.ra, arg.modes, arg.failAt)
    /\ UNCHANGED arg
SpecNew == InitNew /\ [][RunNew]_vars

\* SpecCursor: one call of SetCursor on a constructed controller h0
InitCursor ==
    /\ conn = NewI2CConnection(32, MCP230XXPinMap).conn
    /\ arg \in [op : {"SetCursor"}, h0 : StartControllers, col : Cols, row : Rows,
                failAt : 0..1]
    /\ Constructed(arg.h0)
    /\ GpioIdle
RunSetCursor ==
    /\ op = "none"
    /\ DoSetCursor(arg.col, arg.row, arg.failAt)
    /\ UNCHANGED arg
SpecCursor == InitCursor /\ [][RunSetCursor]_vars

\* SpecFailure: one call of I2CConnection.Write, of SetMode or of Clear, in
\* which the transmission number arg.failAt fails (0: none)
InitFailure ==
    /\ conn = NewI2CConnection(32, MCP230XXPinMap).conn
    /\ arg \in [op : {"I2CWrite"}, h0 : StartControllers, rs : BOOLEAN,
                data : Bytes, failAt : 0..6]
         \cup [op : {"SetMode"}, h0 : StartControllers, modes : SetterLists,
               failAt : 0..3]
         \cup [op : {"Clear"}, h0 : StartControllers, failAt : 0..4]
    /\ Constructed(arg.h0)
    /\ GpioIdle
FailI2CWrite == arg.op = "I2CWrite" /\ RunI2CWrite
FailSetMode == arg.op = "SetMode" /\ RunSetMode
FailClear ==
    /\ arg.op = "Clear"
    /\ op = "none"
    /\ DoClear(arg.failAt)
    /\ UNCHANGED arg
NextFailure == FailI2CWrite \/ FailSetMode \/ FailClear
SpecFailure == InitFailure /\ [][NextFailure]_vars

\* SpecRetry: one call of SetMode or of a method DisplayOff() .. BlinkOn(),
\* in which the transmission number arg.failAt fails (0: none), followed by
\* one call of SetMode with no setters
InitRetry ==
    /\ conn = NewI2CConnection(32, MCP230XXPinMap).conn
    /\ arg \in [op : {"SetMode"}, h0 : StartControllers, modes : SetterLists,
                failAt : 0..3]
         \cup [op : {"toggle"}, h0 : StartControllers, m : ToggleMethods,
               failAt : 0..1]
    /\ Constructed(arg.h0)
    /\ GpioIdle
RetrySetMode == arg.op = "SetMode" /\ RunSetMode
RetryToggle ==
    /\ arg.op = "toggle"
    /\ op = "none"
    /\ DoToggle(arg.m, arg.failAt)
    /\ UNCHANGED arg
SetModeAgain ==
    /\ op \in {"SetMode"} \cup ToggleMethods
    /\ hd = "ctl"
    /\ \E f \in 0..3 : Commit("SetMode()", SetMode(H, <<>>, 0, f))
    /\ UNCHANGED <<hd, arg>>
NextRetry == RetrySetMode \/ RetryToggle \/ SetModeAgain
SpecRetry == InitRetry /\ [][NextRetry]_vars

\* ------------------------------------------------------------------------
\* properties
\* ------------------------------------------------------------------------
BusWrites(ev) == SelectSeq(ev, IsBus)
Writes(tr) == SelectSeq(tr, IsWrite)
IsPrefix(p, q) == Len(p) <= Len(q) /\ SubSeq(q, 1, Len(p)) = p

DistinctPins(pm) ==
    Cardinality({pm.D4, pm.D5, pm.D6, pm.D7, pm.RS, pm.EN}) = 6

\* a nibble (bits b..b+3 of data) placed at the positions D4..D7 of pm
NibbleAt(pm, data, b) ==
    Bit(data, b) * 2 ^ pm.D4 + Bit(data, b + 1) * 2 ^ pm.D5
    + Bit(data, b + 2) * 2 ^ pm.D6 + Bit(data, b + 3) * 2 ^ pm.D7

\* the six bytes the claim describes for (rs, data) under pin map pm
SixFrames(pm, rs, data) ==
    LET rsBit == IF rs THEN 2 ^ pm.RS ELSE 0
        hi == NibbleAt(pm, data, 4) + rsBit
        lo == NibbleAt(pm, data, 0) + rsBit
        en == 2 ^ pm.EN
    IN  <<hi, hi + en, hi, lo, lo + en, lo>>

\* C1: with distinct bit positions for D4..D7, RS and EN, a successful
\* I2CConnection.Write(rs, data) makes exactly six bus writes, all to register
\* 0x13 at the configured address, with the bytes H, H|EN, H, L, L|EN, L: H
\* holds data bits 4..7 and L data bits 0..3 at the positions D4..D7, RS is
\* set in every frame iff rs, EN only in the 2nd and 5th write.  The bytes
\* are a function of (rs, data, pin map) alone.
C1_WriteSixFrames ==
    (op = "I2CWrite" /\ res = "ok" /\ DistinctPins(conn.PinMap)) =>
        LET bw == BusWrites(events)
            six == SixFrames(conn.PinMap, arg.rs, arg.data)
        IN  /\ Len(bw) = 6
            /\ \A i \in 1..6 : bw[i] = BusEv(conn.Addr, 19, six[i])
            /\ \A i \in 1..6 :
                   /\ Bit(bw[i][4], conn.PinMap.RS) = (IF arg.rs THEN 1 ELSE 0)
                   /\ Bit(bw[i][4], conn.PinMap.EN) = (IF i \in {2, 5} THEN 1 ELSE 0)

\* the example of the specification: data 0x41 with register select under
\* the example pin map gives nibble 0100 then nibble 0001, each with RS,
\* each strobed on EN
C1_Witness ==
    /\ op = "I2CWrite" /\ res = "ok"
    /\ conn.PinMap = ExamplePinMap
    /\ arg.rs /\ arg.data = 65
    /\ BusWrites(events) = <<BusEv(conn.Addr, 19, 136), BusEv(conn.Addr, 19, 168),
                             BusEv(conn.Addr, 19, 136), BusEv(conn.Addr, 19, 130),
                             BusEv(conn.Addr, 19, 162), BusEv(conn.Addr, 19, 130)>>

\* what each mode setter is documented to do: the bitfield it concerns
\* ("e" entry, "d" display, "f" function), the bit, and whether it turns the
\* bit on
SetterInfo ==
    [EntryDecrement |-> <<"e", 2, FALSE>>, EntryIncrement |-> <<"e", 2, TRUE>>,
     EntryShiftOff |-> <<"e", 1, FALSE>>, EntryShiftOn |-> <<"e", 1, TRUE>>,
     DisplayOff |-> <<"d", 4, FALSE>>, DisplayOn |-> <<"d", 4, TRUE>>,
     CursorOff |-> <<"d", 2, FALSE>>, CursorOn |-> <<"d", 2, TRUE>>,
     BlinkOff |-> <<"d", 1, FALSE>>, BlinkOn |-> <<"d", 1, TRUE>>,
     FourBitMode |-> <<"f", 16, FALSE>>, EightBitMode |-> <<"f", 16, TRUE>>,
     OneLine |-> <<"f", 8, FALSE>>, TwoLine |-> <<"f", 8, TRUE>>,
     Dots5x8 |-> <<"f", 4, FALSE>>, Dots5x10 |-> <<"f", 4, TRUE>>]

\* whether bit `mask` of field fld is on after the setters of `modes` were
\* applied in order to a field where it was on iff b: the last setter that
\* concerns the bit decides
RECURSIVE Decided(_, _, _, _)
Decided(modes, fld, mask, b) ==
    IF modes = <<>> THEN b
    ELSE LET i == SetterInfo[Head(modes)]
         IN  Decided(Tail(modes), fld, mask,
                     IF i[1] = fld /\ i[2] = mask THEN i[3] ELSE b)

HasBit(v, mask) == (v \div mask) % 2 = 1
BitVal(b, mask) == IF b THEN mask ELSE 0
ExpBit(modes, fld, mask, v0) == BitVal(Decided(modes, fld, mask, HasBit(v0, mask)), mask)
ExpEntry(modes, v0) == ExpBit(modes, "e", 2, v0) + ExpBit(modes, "e", 1, v0)
ExpDisplay(modes, v0) ==
    ExpBit(modes, "d", 4, v0) + ExpBit(modes, "d", 2, v0) + ExpBit(modes, "d", 1, v0)
ExpFunction(modes, v0) ==
    ExpBit(modes, "f", 16, v0) + ExpBit(modes, "f", 8, v0) + ExpBit(modes, "f", 4, v0)

\* the three mode bytes for the bitfields e, d, f, in the order sent
ModeBytes(e, d, f) ==
    <<WriteEv(FALSE, 8 + d), WriteEv(FALSE, 32 + f), WriteEv(FALSE, 4 + e)>>

\* C2: every successful SetMode(modes...), the empty list included, leaves
\* the bitfields as the setters applied in the given order make them, and
\* transmits exactly three instruction bytes (register select false): the
\* display byte 0x08|dMode, the function byte 0x20|fMode, the entry byte
\* 0x04|eMode, in this order, each encoding the value after all setters.
C2_SetModeThreeBytes ==
    (op = "SetMode" /\ res = "ok") =>
        LET e == ExpEntry(arg.modes, arg.h0.eMode)
            d == ExpDisplay(arg.modes, arg.h0.dMode)
            f == ExpFunction(arg.modes, arg.h0.fMode)
        IN  /\ eMode = e /\ dMode = d /\ fMode = f
            /\ instr = ModeBytes(e, d, f)

\* a successful SetMode(DisplayOff, EntryShiftOn) on the default controller:
\* display byte 0x08, function byte 0x28, entry byte 0x07
C2_Witness ==
    /\ op = "SetMode" /\ res = "ok"
    /\ arg.modes = <<"DisplayOff", "EntryShiftOn">>
    /\ arg.h0.dMode = 4 /\ arg.h0.eMode = 2 /\ arg.h0.fMode = 8
    /\ instr = <<WriteEv(FALSE, 8), WriteEv(FALSE, 40), WriteEv(FALSE, 7)>>

\* the ...Enabled accessor that reads the bit setter m concerns
ReadBack(m, h) ==
    LET i == SetterInfo[m]
    IN  CASE i[1] = "e" /\ i[2] = 2 -> EntryIncrementEnabled(h)
          [] i[1] = "e" /\ i[2] = 1 -> EntryShiftEnabled(h)
          [] i[1] = "d" /\ i[2] = 4 -> DisplayEnabled(h)
          [] i[1] = "d" /\ i[2] = 2 -> CursorEnabled(h)
          [] i[1] = "d" /\ i[2] = 1 -> BlinkEnabled(h)
          [] i[1] = "f" /\ i[2] = 16 -> EightBitModeEnabled(h)
          [] i[1] = "f" /\ i[2] = 8 -> TwoLineEnabled(h)
          [] i[1] = "f" /\ i[2] = 4 -> Dots5x10Enabled(h)

\* a combination of setters: no two of them set the same bit differently
Combination(modes) ==
    \A i, j \in 1..Len(modes) :
        (SetterInfo[modes[i]][1] = SetterInfo[modes[j]][1]
         /\ SetterInfo[modes[i]][2] = SetterInfo[modes[j]][2])
            => modes[i] = modes[j]

Reverse(q) == [i \in 1..Len(q) |-> q[Len(q) + 1 - i]]

\* C3: after a successful SetMode with a combination of setters, each
\* ...Enabled accessor reads exactly the bit its setter specifies; applying
\* the same setters again changes nothing; the result does not depend on
\* the order of the setters.
C3_ReadBackSetters ==
    (op = "SetMode" /\ res = "ok" /\ Combination(arg.modes)) =>
        /\ \A i \in 1..Len(arg.modes) :
               ReadBack(arg.modes[i], H) = SetterInfo[arg.modes[i]][3]
        /\ applyModes(arg.modes, H) = H
        /\ applyModes(Reverse(arg.modes), arg.h0) = H

\* C4: a step of Clear, from any state of the controller, leaves the three
\* bitfields as they were, and what it transmits is the clear-display
\* instruction 0x01 followed by the display, function and entry bytes of
\* the bitfields held before the call: all four when Clear succeeds, and
\* never anything else.
C4_ClearRetransmits ==
    [][op' = "Clear" =>
          LET expected == <<WriteEv(FALSE, 1)>> \o ModeBytes(eMode, dMode, fMode)
          IN  /\ eMode' = eMode /\ dMode' = dMode /\ fMode' = fMode
              /\ IsPrefix(Writes(instr'), expected)
              /\ res' = "ok" => Writes(instr') = expected]_vars

\* a successful Clear of a controller whose modes are not the defaults
C4_Witness ==
    /\ op = "Clear" /\ res = "ok"
    /\ eMode = 3 /\ dMode = 7 /\ fMode = 28
    /\ Writes(instr) = <<WriteEv(FALSE, 1), WriteEv(FALSE, 15), WriteEv(FALSE, 60),
                         WriteEv(FALSE, 7)>>

\* C5: for every column and every row above 3, SetCursor(col, row) transmits
\* the instruction byte SetCursor(col, 3) transmits, 0x80 | (col + rowAddr[3]),
\* and returns the same result.
C5_RowsAbove3 ==
    (op = "SetCursor" /\ arg.row > 3) =>
        LET a == (arg.col + arg.h0.rowAddr[4]) % 256
            at3 == SetCursor(arg.h0, arg.col, 3, 0, arg.failAt)
        IN  /\ instr = <<WriteEv(FALSE, IF a < 128 THEN 128 + a ELSE a)>>
            /\ instr = at3.instr
            /\ res = at3.res
            /\ res = IF arg.failAt = 1 THEN "err" ELSE "ok"

\* SetCursor(19, 5) on a 20-column display: 0x80 | (19 + 0x54) = 0xE7
C5_Witness ==
    /\ op = "SetCursor" /\ res = "ok"
    /\ arg.row = 5 /\ arg.col = 19
    /\ arg.h0.rowAddr = RowAddress20Col
    /\ instr = <<WriteEv(FALSE, 231)>>

LacksNormal(pd) == pd.Caps % 2 = 0
Descs == {BoardPins[i] : i \in 1..Len(BoardPins)}

\* C6: a successful digital-pin acquisition returns the handle recorded for
\* the pin the key resolves to; a pin that holds a digital handle is never
\* given another one, an acquisition of it succeeds and returns that very
\* handle without constructing anything; so two acquisitions with the same
\* key, whatever happens to other pins in between, return the same handle
\* and the constructor has run exactly once for the pin.
C6_SameHandleOneOpen ==
    [][/\ \A n \in PinNumbers :
              initializedPins[n] # NoHandle => initializedPins'[n] = initializedPins[n]
       /\ gret'.op = "digitalPin" =>
              LET pd == lookupKey(gret'.key)
              IN  /\ gret'.err = NoErr =>
                         /\ gret'.dp = initializedPins'[pd.N]
                         /\ gret'.dp.kind = "digital" /\ gret'.dp.n = pd.N
                         /\ opened'[pd.N] = 1
                  /\ (Found(pd) /\ initializedPins[pd.N].kind = "digital") =>
                         /\ gret'.err = NoErr
                         /\ gret'.dp = initializedPins[pd.N]
                         /\ opened' = opened /\ nextHandle' = nextHandle]_vars

\* the first handle constructed is returned again after another pin was
\* acquired in between
C6_Witness ==
    /\ gret.op = "digitalPin" /\ gret.err = NoErr
    /\ gret.dp.id = 1 /\ nextHandle = 3
    /\ opened[gret.dp.n] = 1

\* C7: a pin whose capability mask lacks CapNormal never has a handle
\* recorded nor a handle constructed, and every digital-pin acquisition of
\* it fails with UnsupportedMode.
C7_UnsupportedMode ==
    /\ \A pd \in Descs :
           LacksNormal(pd) => initializedPins[pd.N] = NoHandle /\ opened[pd.N] = 0
    /\ gret.op = "digitalPin" =>
           LET pd == lookupKey(gret.key)
           IN  (Found(pd) /\ LacksNormal(pd)) =>
                   gret.err = ErrUnsupportedMode /\ gret.dp = NoHandle

\* the UART pin is refused after other pins were acquired
C7_Witness ==
    /\ gret.op = "digitalPin" /\ gret.key = StrKey("UART_TX")
    /\ gret.err = ErrUnsupportedMode
    /\ Cardinality(Held(initializedPins)) = 2

\* C8: a digital-pin acquisition of a pin that holds a handle of another
\* kind fails with ModeConflict and changes nothing: the mapping, the
\* handles constructed and the handles closed are as before.
C8_ModeConflict ==
    [][gret'.op = "digitalPin" =>
          LET pd == lookupKey(gret'.key)
          IN  (Found(pd) /\ initializedPins[pd.N] # NoHandle
               /\ initializedPins[pd.N].kind # "digital") =>
                  /\ gret'.err = ErrModeConflict /\ gret'.dp = NoHandle
                  /\ initializedPins' = initializedPins
                  /\ opened' = opened /\ nextHandle' = nextHandle
                  /\ closed' = closed]_vars

\* pin 12 is held as a PWM pin and asked for as a digital pin
C8_Witness ==
    /\ gret.op = "digitalPin" /\ gret.err = ErrModeConflict
    /\ gret.key = IntKey(12)
    /\ initializedPins[12].kind = "pwm"

\* C9: Close calls Close on held handles one at a time, each at most once;
\* only the last call made can have failed; without a failure every held
\* handle was closed exactly once and Close returns nil; with a failure
\* Close returns that error and the handles not yet visited stay open; the
\* mapping is not changed.
C9_CloseStopsAtFirstError ==
    [][gret'.op = "Close" =>
          LET cs == closeSeq'
              held == Held(initializedPins)
              okPins == {cs[i][1] : i \in {j \in 1..Len(cs) : cs[j][2] = NoErr}}
          IN  /\ \A i, j \in 1..Len(cs) : cs[i][1] = cs[j][1] => i = j
              /\ \A i \in 1..Len(cs) : cs[i][1] \in held
              /\ \A i \in 1..(Len(cs) - 1) : cs[i][2] = NoErr
              /\ gret'.err = NoErr =>
                     /\ {cs[i][1] : i \in 1..Len(cs)} = held
                     /\ \A i \in 1..Len(cs) : cs[i][2] = NoErr
              /\ gret'.err # NoErr => Len(cs) > 0 /\ cs[Len(cs)][2] = gret'.err
              /\ closed' = closed \cup okPins
              /\ initializedPins' = initializedPins]_vars

\* of three held handles the second one visited fails: the third is not
\* visited and only the first is closed
C9_Witness ==
    /\ gret.op = "Close" /\ gret.err = "IOError"
    /\ Cardinality(Held(initializedPins)) = 3
    /\ Len(closeSeq) = 2
    /\ Cardinality(closed) = 1

\* C10: New transmits 0x33, 0x32, then the display, function and entry
\* bytes of the defaults (entry 0x02, display 0x04, function 0x08) as
\* overridden by the caller's setters, once each; a successful New returns
\* a controller holding these bitfields; with no setters the bytes are 0x33,
\* 0x32, 0x0C, 0x28, 0x06; when a transmission fails New stops, returns the
\* error and no controller.
C10_New ==
    op = "New" =>
        LET e == ExpEntry(arg.modes, 2)
            d == ExpDisplay(arg.modes, 4)
            f == ExpFunction(arg.modes, 8)
            expected == <<WriteEv(FALSE, 51), WriteEv(FALSE, 50)>> \o ModeBytes(e, d, f)
        IN  /\ IsPrefix(instr, expected)
            /\ res = "ok" =>
                   /\ hd = "ctl" /\ instr = expected
                   /\ eMode = e /\ dMode = d /\ fMode = f
                   /\ rowAddr = arg.ra
            /\ res # "ok" =>
                   /\ res = "err" /\ hd = "nil"
                   /\ Len(instr) = arg.failAt
            /\ (res = "err") <=> (arg.failAt \in 1..5)
            /\ (res = "ok" /\ arg.modes = <<>>) =>
                   /\ eMode = 2 /\ dMode = 4 /\ fMode = 8
                   /\ instr = <<WriteEv(FALSE, 51), WriteEv(FALSE, 50),
                                WriteEv(FALSE, 12), WriteEv(FALSE, 40),
                                WriteEv(FALSE, 6)>>

\* New(bus, rowAddr, CursorOn, OneLine): cursor on and one line override the
\* defaults; bytes 0x33, 0x32, 0x0E, 0x20, 0x06
C10_Witness ==
    /\ op = "New" /\ res = "ok" /\ hd = "ctl"
    /\ arg.modes = <<"CursorOn", "OneLine">>
    /\ dMode = 6 /\ fMode = 0 /\ eMode = 2
    /\ instr = <<WriteEv(FALSE, 51), WriteEv(FALSE, 50), WriteEv(FALSE, 14),
                 WriteEv(FALSE, 32), WriteEv(FALSE, 6)>>

\* C11: Dots5x10Enabled is true exactly when bit 0x04 (5x10-pixel
\* characters) of the function bitfield is on: true once the Dots5x10
\* setter was the last of the two applied, false once Dots5x8 was.
C11_Dots5x10Enabled ==
    op = "SetMode" =>
        /\ Dots5x10Enabled(H) <=> HasBit(fMode, 4)
        /\ Decided(arg.modes, "f", 4, HasBit(arg.h0.fMode, 4)) <=> Dots5x10Enabled(H)

Clamp(row, lo, hi) == IF row < lo THEN lo ELSE IF row > hi THEN hi ELSE row

\* C12: for every row, negative rows included, SetCursor(col, row) does not
\* fail on account of the row: it makes one transmission, of the instruction
\* byte 0x80 | (col + rowAddr[clamp(row, 0, 3)]), and fails only when that
\* transmission fails.
C12_AnyRowClamped ==
    op = "SetCursor" =>
        LET a == (arg.col + arg.h0.rowAddr[Clamp(arg.row, 0, 3) + 1]) % 256
        IN  /\ instr = <<WriteEv(FALSE, IF a < 128 THEN 128 + a ELSE a)>>
            /\ res = IF arg.failAt = 1 THEN "err" ELSE "ok"

\* the events of a complete I2CConnection.Write(rs, data) on connection c:
\* before each of the six bus writes a pulse delay, after the last one the
\* settle delay
WriteEvents(c, rs, data) ==
    LET six == SixFrames(c.PinMap, rs, data)
    IN  [i \in 1..13 |->
            IF i = 13 THEN SleepEv(37)
            ELSE IF i % 2 = 1 THEN SleepEv(1)
            ELSE BusEv(c.Addr, 19, six[i \div 2])]

\* C13: when bus write number k (1 <= k <= 6) of an I2CConnection.Write
\* fails, Write returns the error having attempted exactly k bus writes: the
\* failed write is the last thing it did, it is not repeated, and neither
\* the rest of the strobe nor the other nibble follows.  SetMode and Clear
\* stop the same way at their first failing transmission: the bytes after it
\* are not transmitted.  Without a failure the calls succeed.
C13_FailureStops ==
    /\ op = "I2CWrite" =>
           LET k == arg.failAt
           IN  /\ (res = "err") <=> (k \in 1..6)
               /\ k = 0 => res = "ok" /\ NumBus(events) = 6
               /\ k \in 1..6 =>
                      /\ NumBus(events) = k
                      /\ events = SubSeq(WriteEvents(conn, arg.rs, arg.data), 1, 2 * k)
    /\ op = "SetMode" =>
           LET k == arg.failAt
               all == ModeBytes(ExpEntry(arg.modes, arg.h0.eMode),
                                ExpDisplay(arg.modes, arg.h0.dMode),
                                ExpFunction(arg.modes, arg.h0.fMode))
           IN  /\ (res = "err") <=> (k \in 1..3)
               /\ k = 0 => res = "ok" /\ instr = all
               /\ k \in 1..3 => instr = SubSeq(all, 1, k)
    /\ op = "Clear" =>
           LET k == arg.failAt
               all == <<WriteEv(FALSE, 1)>>
                      \o ModeBytes(arg.h0.eMode, arg.h0.dMode, arg.h0.fMode)
           IN  /\ (res = "err") <=> (k \in 1..4)
               /\ k = 0 => res = "ok" /\ Writes(instr) = all
               /\ k \in 1..4 =>
                      /\ Writes(instr) = SubSeq(all, 1, k)
                      /\ IsWrite(instr[Len(instr)])

\* Write(true, 0x41) whose fourth bus write fails, the first of the low
\* nibble: the strobe of the high nibble is complete, of the low nibble only
\* the failed write was made
C13_Witness ==
    /\ op = "I2CWrite" /\ res = "err"
    /\ arg.failAt = 4 /\ arg.rs /\ arg.data = 65
    /\ BusWrites(events) = <<BusEv(32, 19, 132), BusEv(32, 19, 164),
                             BusEv(32, 19, 132), BusEv(32, 19, 144)>>
    /\ IsBus(events[Len(events)])

\* the transmissions of a call that reached the controller: all of them, or
\* all but the last when the call returned an error
Transmitted(tr, r) ==
    LET w == Writes(tr)
    IN  IF r = "err" THEN SubSeq(w, 1, Len(w) - 1) ELSE w

\* the mode bytes the controller received last, dev before the
\* transmissions w: 0x04..0x07 is an entry-mode byte, 0x08..0x0F a
\* display-mode byte, 0x20..0x3F a function-mode byte
RECURSIVE Received(_, _)
Received(dev, w) ==
    IF w = <<>> THEN dev
    ELSE LET v == Head(w)[3]
         IN  Received(IF Head(w)[2] THEN dev
                      ELSE IF v \in 4..7 THEN [dev EXCEPT !.eMode = v - 4]
                      ELSE IF v \in 8..15 THEN [dev EXCEPT !.dMode = v - 8]
                      ELSE IF v \in 32..63 THEN [dev EXCEPT !.fMode = v - 32]
                      ELSE dev,
                      Tail(w))

\* the bitfields the setters of the first call of SpecRetry produce
FirstCallModes ==
    LET ms == IF arg.op = "SetMode" THEN arg.modes ELSE <<arg.m>>
    IN  [eMode |-> ExpEntry(ms, arg.h0.eMode), dMode |-> ExpDisplay(ms, arg.h0.dMode),
         fMode |-> ExpFunction(ms, arg.h0.fMode), rowAddr |-> arg.h0.rowAddr]

\* C14: SetMode and the methods DisplayOff() .. BlinkOn() do not roll back:
\* whether or not a transmission fails, the bitfields afterwards are the
\* ones the setters produce, so after a failure they can differ from the
\* mode bytes the controller received last.  A following successful SetMode
\* with no setters transmits the three bytes of the bitfields held, after
\* which the controller has received what is held.
C14_NoRollback ==
    [][/\ (op = "none" /\ op' # "none") =>
              /\ H' = FirstCallModes
              /\ res' = "err" <=> arg.failAt # 0
       /\ (op' = "SetMode()") =>
              /\ H' = H
              /\ res' = "ok" =>
                     /\ instr' = ModeBytes(eMode, dMode, fMode)
                     /\ Received(Received(arg.h0, Transmitted(instr, res)),
                                 Transmitted(instr', res')) = H']_vars

\* SetMode(CursorOn, Dots5x10) on a default controller whose second
\* transmission failed: the controller has the cursor on and, unlike the
\* bitfields, still 5x8 dots
C14_Diverged ==
    /\ op = "SetMode" /\ res = "err"
    /\ arg.modes = <<"CursorOn", "Dots5x10">>
    /\ arg.failAt = 2
    /\ dMode = 6 /\ fMode = 12 /\ eMode = 2
    /\ Received(arg.h0, Transmitted(instr, res))
           = [eMode |-> 2, dMode |-> 6, fMode |-> 8, rowAddr |-> rowAddr]

\* the same call followed by a successful SetMode(): 0x0E, 0x2C, 0x06
C14_Witness ==
    /\ op = "SetMode()" /\ res = "ok"
    /\ arg.op = "SetMode" /\ arg.modes = <<"CursorOn", "Dots5x10">>
    /\ arg.failAt = 2
    /\ dMode = 6 /\ fMode = 12 /\ eMode = 2
    /\ instr = <<WriteEv(FALSE, 14), WriteEv(FALSE, 44), WriteEv(FALSE, 6)>>

\* C15: ShiftLeft, ShiftRight and Home each make one transmission, of the
\* instruction byte 0x18, 0x1C and 0x02, and leave the three bitfields as
\* they were, whether the transmission succeeds or fails; Home waits the
\* long delay after its transmission in both cases.
C15_ShiftsAndHome ==
    [][/\ op' = "ShiftLeft" => instr' = <<WriteEv(FALSE, 24)>>
       /\ op' = "ShiftRight" => instr' = <<WriteEv(FALSE, 28)>>
       /\ op' = "Home" => instr' = <<WriteEv(FALSE, 2), DelayEv(1520)>>
       /\ op' \in {"ShiftLeft", "ShiftRight", "Home"} =>
              /\ eMode' = eMode /\ dMode' = dMode /\ fMode' = fMode
              /\ res' \in {"ok", "err"}]_vars

\* a Home whose transmission failed, on a controller with non-default
\* modes: the delay was made all the same
C15_Witness ==
    /\ op = "Home" /\ res = "err"
    /\ instr = <<WriteEv(FALSE, 2), DelayEv(1520)>>
    /\ eMode = 3 /\ dMode = 7 /\ fMode = 28

\* C16: BacklightOn and BacklightOff each make one bus write, to register
\* 0x12, of the byte 0x00 (on) or 0x40 (off), whatever was written before:
\* nothing is written to register 0x13 and the controller's bitfields are
\* as before.  The bus writes of Write all go to register 0x13, never 0x12.
C16_Backlight ==
    [][/\ op' = "BacklightOn" => events' = <<BusEv(conn.Addr, 18, 0)>>
       /\ op' = "BacklightOff" => events' = <<BusEv(conn.Addr, 18, 64)>>
       /\ op' \in {"BacklightOn", "BacklightOff"} =>
              /\ eMode' = eMode /\ dMode' = dMode /\ fMode' = fMode
              /\ hd' = hd /\ instr' = <<>>
       /\ op' = "I2CWrite" =>
              \A i \in 1..Len(events') :
                  IsBus(events'[i]) => events'[i][3] = 19]_vars

\* BacklightOff on the connection of a controller with non-default modes
C16_Witness ==
    /\ op = "BacklightOff" /\ res = "ok"
    /\ events = <<BusEv(32, 18, 64)>>
    /\ hd = "ctl" /\ eMode = 3 /\ dMode = 7 /\ fMode = 28

\* C17: the events of a successful I2CConnection.Write are six bus writes,
\* each preceded by a pulse delay (so a pulse delay lies between any two
\* consecutive bus writes of a strobe), and after the sixth one settle
\* delay, the only one, as the last event.  In a successful Clear the long
\* delay, the only delay, follows the clear-display transmission and
\* precedes the three mode bytes.
C17_Delays ==
    /\ (op = "I2CWrite" /\ res = "ok") =>
           /\ Len(events) = 13
           /\ \A i \in 1..6 : events[2 * i - 1] = SleepEv(1) /\ IsBus(events[2 * i])
           /\ events[13] = SleepEv(37)
    /\ (op = "Clear" /\ res = "ok") =>
           /\ Len(instr) = 5
           /\ instr[1] = WriteEv(FALSE, 1)
           /\ instr[2] = DelayEv(1520)
           /\ \A i \in 3..5 : IsWrite(instr[i])

\* a successful Write(false, 0x01), the byte Clear transmits first
C17_Witness ==
    /\ op = "I2CWrite" /\ res = "ok"
    /\ ~arg.rs /\ arg.data = 1
    /\ Len(SelectSeq(events, IsSleep)) = 7
    /\ events[13] = SleepEv(37)

\* key names descriptor pd: by its number or by one of its aliases
Resolves(key, pd) ==
    \/ key.t = "int" /\ key.v = pd.N
    \/ key.t = "string" /\ \E j \in 1..Len(pd.IDs) : pd.IDs[j] = key.v

HasNormal(pd) == pd.Caps % 2 = 1

\* C18: in every state reached by acquisitions and Close calls the map holds
\* at most one handle per pin number: a recorded handle is the handle of its
\* pin number, no handle is recorded twice, and as many handles were
\* constructed as pins are held.  Every pin recorded with a digital handle
\* is the number of a descriptor with CapNormal.  The map changes only by
\* an acquisition that succeeds on a pin without a handle, which records the
\* handle it returns; an acquisition failing with NotFound, UnsupportedMode
\* or ModeConflict leaves the map as it was.  A digital-pin acquisition by
\* any key that names a CapNormal descriptor, number or alias, succeeds
\* unless the pin is held in another kind, and returns the handle recorded
\* for that descriptor's pin.
C18_MappingInvariant ==
    [][LET pins == initializedPins'
       IN  /\ \A n \in PinNumbers :
                  pins[n] # NoHandle =>
                      /\ pins[n].n = n
                      /\ pins[n].kind = "digital" =>
                             \E pd \in Descs : pd.N = n /\ HasNormal(pd)
           /\ \A m, n \in Held(pins) : pins[m].id = pins[n].id => m = n
           /\ Cardinality(Held(pins)) = nextHandle' - 1
           /\ pins # initializedPins =>
                  /\ gret'.op \in {"digitalPin", "pwmPin"} /\ gret'.err = NoErr
                  /\ \E n \in PinNumbers :
                         /\ initializedPins[n] = NoHandle
                         /\ pins = [initializedPins EXCEPT ![n] = gret'.dp]
           /\ gret'.err \in {ErrNotFound, ErrUnsupportedMode, ErrModeConflict} =>
                  pins = initializedPins /\ gret'.dp = NoHandle
           /\ gret'.op = "digitalPin" =>
                  \A pd \in Descs :
                      Resolves(gret'.key, pd) =>
                          /\ gret'.err = NoErr => gret'.dp = pins[pd.N]
                          /\ (HasNormal(pd) /\ initializedPins[pd.N].kind # "pwm") =>
                                 gret'.err = NoErr]_vars

\* pin 11, acquired first, is acquired again by its second alias after
\* another pin was acquired: the first handle is returned
C18_Witness ==
    /\ gret.op = "digitalPin" /\ gret.err = NoErr
    /\ gret.key = StrKey("I2C_SDA")
    /\ gret.dp = initializedPins[11] /\ gret.dp.id = 1
    /\ nextHandle = 3 /\ opened[11] = 1

\* C19: Close, whether it returns an error or not, leaves the map as it
\* was and constructs nothing.  So a digital-pin acquisition of a pin whose
\* handle was closed succeeds with the handle recorded, the closed one, and
\* constructs no new handle; and a further Close visits held handles only,
\* all of them when none fails, the handles closed before included.
C19_CloseKeepsEntries ==
    [][/\ gret'.op = "Close" =>
              /\ initializedPins' = initializedPins
              /\ opened' = opened /\ nextHandle' = nextHandle
              /\ \A i \in 1..Len(closeSeq') : closeSeq'[i][1] \in Held(initializedPins)
              /\ gret'.err = NoErr =>
                     closed \subseteq {closeSeq'[i][1] : i \in 1..Len(closeSeq')}
       /\ gret'.op = "digitalPin" =>
              \A pd \in Descs :
                  (Resolves(gret'.key, pd) /\ pd.N \in closed) =>
                      /\ gret'.err = NoErr
                      /\ gret'.dp = initializedPins[pd.N]
                      /\ opened' = opened /\ nextHandle' = nextHandle
       /\ closed' \subseteq Held(initializedPins')]_vars

\* pin 10 was acquired, closed, and acquired again: the handle returned is
\* the one constructed first and the constructor ran once
C19_Witness ==
    /\ gret.op = "digitalPin" /\ gret.err = NoErr
    /\ gret.dp.n = 10 /\ 10 \in closed
    /\ gret.dp = initializedPins[10]
    /\ opened[10] = 1

\* C20: the entry bitfield has bits within 0x03 only, the display bitfield
\* within 0x07, the function bitfield within 0x1C; every display-mode byte
\* transmitted by New, SetMode, Clear and the methods DisplayOff() ..
\* BlinkOn() lies in 0x08..0x0F, every function-mode byte in 0x20..0x3F
\* and every entry-mode byte in 0x04..0x07, all with register select false.
C20_ModeBits ==
    /\ eMode \in 0..3
    /\ dMode \in 0..7
    /\ fMode \in {0, 4, 8, 12, 16, 20, 24, 28}
    /\ LET w == Writes(instr)
           off == CASE op = "SetMode" -> 0
                    [] op = "Clear" -> 1
                    [] op = "New" -> 2
                    [] OTHER -> 5
           lo == <<8, 32, 4>>
           hi == <<15, 63, 7>>
       IN  /\ \A i \in 1..3 :
                  off + i <= Len(w) =>
                      ~w[off + i][2] /\ w[off + i][3] \in lo[i]..hi[i]
           /\ op \in ToggleMethods => ~w[1][2] /\ w[1][3] \in 8..15
           /\ (op \in {"SetMode", "Clear", "New"} \cup ToggleMethods /\ res = "ok") =>
                  Len(w) = IF op \in ToggleMethods THEN 1 ELSE off + 3

\* a successful SetMode that turned the last bits on: every bitfield is at
\* its maximum and the bytes are 0x0F, 0x3C, 0x07
C20_Witness ==
    /\ op = "SetMode" /\ res = "ok"
    /\ eMode = 3 /\ dMode = 7 /\ fMode = 28
    /\ instr = <<WriteEv(FALSE, 15), WriteEv(FALSE, 60), WriteEv(FALSE, 7)>>
====
